---- MODULE Spec2Model ----
(***************************************************************************)
(* Model of the two notebooks of SMF110_Spark_Python3.ipynb:               *)
(*   - the SMF 110 analysis (data cleaning, use-case filter, transaction   *)
(*     rate per region and LPAR, CPU percentage per region and LPAR);      *)
(*   - the word count of a text file (read_csv, Counter, statistics,       *)
(*     top-10 plot).                                                       *)
(* Strings are sequences of one-character strings, so that substring,     *)
(* prefix, regular-expression, join and split operations are computed.     *)
(* USRCPUT_TIMER values are integers (a fixed unit of CPU time); a         *)
(* quotient is kept as a record [num, den], den = 0 standing for NaN.      *)
(***************************************************************************)
EXTENDS Integers, Sequences, FiniteSets, TLC

VARIABLES
    pc,                       \* the cell (or loop position) executed next
    execs,                    \* statement group -> number of times executed
    error,                    \* "none" or the exception that stopped the run
    smf110_df,                \* the SMF frame: a sequence of rows with index label ix
    orig_smf110_df,
    cpu_time_per_region,
    smf110_filtered_tran_df,
    trans_rate_per_region,    \* pivot table [index, columns, cnt]
    sys_id,
    cics_regions,
    num_days_cics_regions,    \* dict in insertion order [keys, val]
    loop_j, loop_i,           \* positions of the two nested for loops
    loop_k,                   \* position of the for loop over the dict
    start_ind,
    cics_trans_df,            \* key -> (TRAN -> [num, den])
    cpu_percentage_per_region,
    file,                     \* the lines of shakespeare_complete.txt
    df,                       \* the rows of column 'text'
    word_c,                   \* list of [word, count]
    words, counts,            \* the lists plotted by the last cell
    out                       \* what the word-count notebook printed

vars == <<pc, execs, error, smf110_df, orig_smf110_df, cpu_time_per_region,
          smf110_filtered_tran_df, trans_rate_per_region, sys_id, cics_regions,
          num_days_cics_regions, loop_j, loop_i, loop_k, start_ind,
          cics_trans_df, cpu_percentage_per_region, file, df, word_c, words,
          counts, out>>

smfVars == <<smf110_df, orig_smf110_df, cpu_time_per_region,
             smf110_filtered_tran_df, trans_rate_per_region, sys_id,
             cics_regions, num_days_cics_regions, loop_j, loop_i, loop_k,
             start_ind, cics_trans_df, cpu_percentage_per_region>>

wcVars == <<file, df, word_c, words, counts, out>>

-----------------------------------------------------------------------------
(* Bounds of the model *)

MaxRows == 3

MaxLines == 3

-----------------------------------------------------------------------------
(* Python str operations *)

\* code points in increasing order, for the characters of the SMF columns
Alphabet == <<"0", "1", "2", "3", "4", "5", "6", "7", "8", "9",
              "A", "B", "C", "D", "E", "F", "G", "H", "I", "J", "K", "L", "M",
              "N", "O", "P", "Q", "R", "S", "T", "U", "V", "W", "X", "Y", "Z">>

CharRank(c) == CHOOSE i \in 1..Len(Alphabet) : Alphabet[i] = c

RECURSIVE StrLess(_, _)
StrLess(a, b) ==
    IF b = <<>> THEN FALSE
    ELSE IF a = <<>> THEN TRUE
    ELSE IF Head(a) = Head(b) THEN StrLess(Tail(a), Tail(b))
    ELSE CharRank(Head(a)) < CharRank(Head(b))

StartsWith(s, p) == Len(s) >= Len(p) /\ SubSeq(s, 1, Len(p)) = p

\* re.search of a literal: the literal occurs somewhere in s
Contains(s, sub) ==
    \E i \in 1..(Len(s) - Len(sub) + 1) : SubSeq(s, i, i + Len(sub) - 1) = sub

sCICS == <<"C", "I", "C", "S">>
sCICS3AAB == <<"C", "I", "C", "S", "3", "A", "A", "B">>
sCICS6AAA == <<"C", "I", "C", "S", "6", "A", "A", "A">>
sCICS1AAA == <<"C", "I", "C", "S", "1", "A", "A", "A">>
sXCICS9 == <<"X", "C", "I", "C", "S", "9">>
sDB2PROD == <<"D", "B", "2", "P", "R", "O", "D">>
sMAP == <<"M", "A", "P">>
sY195 == <<"Y", "1", "9", "5">>
sY295 == <<"Y", "2", "9", "5">>
sY695 == <<"Y", "6", "9", "5">>
sY1950 == <<"Y", "1", "9", "5", "0">>
sXMAP == <<"X", "M", "A", "P">>
sMAPX == <<"M", "A", "P", "X">>
sSYS1 == <<"S", "Y", "S", "1">>
sSYS2 == <<"S", "Y", "S", "2">>

\* str.contains("CICS") == True
MaskCICS(spn) == Contains(spn, sCICS)

\* str.contains('^Y[1-5]95$|MAP')
MatchTran(tran) ==
    \/ /\ Len(tran) = 4
       /\ tran[1] = "Y"
       /\ tran[2] \in {"1", "2", "3", "4", "5"}
       /\ tran[3] = "9"
       /\ tran[4] = "5"
    \/ Contains(tran, sMAP)

\* str.contains('CICS3AAB|CICS6AAA')
MatchRegion(spn) == Contains(spn, sCICS3AAB) \/ Contains(spn, sCICS6AAA)

-----------------------------------------------------------------------------
(* Sequences, sorting and sums *)

RECURSIVE SeqSum(_)
SeqSum(s) == IF s = <<>> THEN 0 ELSE Head(s) + SeqSum(Tail(s))

Range(s) == {s[i] : i \in 1..Len(s)}

\* the elements of s at the positions of keep, in order
RECURSIVE Pick(_, _, _)
Pick(s, keep, i) ==
    IF i > Len(s) THEN <<>>
    ELSE (IF i \in keep THEN <<s[i]>> ELSE <<>>) \o Pick(s, keep, i + 1)

\* tuples (str, str) and (str, str, int) compared as Python compares them
PairLess(a, b) ==
    StrLess(a[1], b[1]) \/ (a[1] = b[1] /\ StrLess(a[2], b[2]))

TripleLess(a, b) ==
    PairLess(a, b) \/ (a[1] = b[1] /\ a[2] = b[2] /\ a[3] < b[3])

\* the strings of S in increasing order
RECURSIVE SortedStrs(_)
SortedStrs(S) ==
    IF S = {} THEN <<>>
    ELSE LET m == CHOOSE x \in S : \A y \in S \ {x} : StrLess(x, y)
         IN <<m>> \o SortedStrs(S \ {m})

\* the pairs of S in increasing order
RECURSIVE SortedPairs(_)
SortedPairs(S) ==
    IF S = {} THEN <<>>
    ELSE LET m == CHOOSE x \in S : \A y \in S \ {x} : PairLess(x, y)
         IN <<m>> \o SortedPairs(S \ {m})

\* the triples of S in increasing order
RECURSIVE SortedTriples(_)
SortedTriples(S) ==
    IF S = {} THEN <<>>
    ELSE LET m == CHOOSE x \in S : \A y \in S \ {x} : TripleLess(x, y)
         IN <<m>> \o SortedTriples(S \ {m})

TimerSum(frame) == SeqSum([i \in 1..Len(frame) |-> frame[i].USRCPUT_TIMER])

-----------------------------------------------------------------------------
(* Input tables of the SMF notebook *)

Row(spn, tran, sid, timer, sec) ==
    [SMFMNSPN |-> spn, TRAN |-> tran, SMF_SID |-> sid,
     USRCPUT_TIMER |-> timer, SEC |-> sec]

RowPool ==
    { Row(sCICS3AAB, sY195, sSYS1, 2, 0),
      Row(sCICS3AAB, sY295, sSYS1, 1, 1),
      Row(sCICS3AAB, sXMAP, sSYS2, 1, 0),
      Row(sCICS6AAA, sY195, sSYS1, 3, 0),
      Row(sCICS6AAA, sMAPX, sSYS2, 2, 1),
      Row(sCICS1AAA, sY195, sSYS1, 5, 0),
      Row(sXCICS9,   sY295, sSYS1, 1, 0),
      Row(sDB2PROD,  sY195, sSYS1, 4, 0),
      Row(sCICS3AAB, sY695, sSYS1, 2, 0),
      Row(sCICS6AAA, sY1950, sSYS2, 1, 1) }

\* the frame read by read_json / toPandas: row i carries index label i - 1
Frame(rows) ==
    [i \in 1..Len(rows) |->
        [ix |-> i - 1, SMFMNSPN |-> rows[i].SMFMNSPN, TRAN |-> rows[i].TRAN,
         SMF_SID |-> rows[i].SMF_SID, USRCPUT_TIMER |-> rows[i].USRCPUT_TIMER,
         SEC |-> rows[i].SEC]]

Tables == UNION {[1..n -> RowPool] : n \in 1..MaxRows}

-----------------------------------------------------------------------------
(* pandas operations used by the cells *)

\* a Series computed on frame: its index labels and its values, row by row
Series(frame, vals) ==
    [labels |-> [i \in 1..Len(frame) |-> frame[i].ix], vals |-> vals]

MaskAt(mask, label) ==
    \E i \in 1..Len(mask.labels) : mask.labels[i] = label /\ mask.vals[i]

\* frame[mask] with row positions instead of index labels
BoolIndexMutant(frame, mask) ==
    Pick(frame, {i \in 1..Len(frame) : i <= Len(mask.vals) /\ mask.vals[i]}, 1)

\* frame[mask]: the boolean Series is aligned on the index labels of frame
BoolIndex(frame, mask) ==
    Pick(frame, {i \in 1..Len(frame) : MaskAt(mask, frame[i].ix)}, 1)

\* frame.SMFMNSPN.str.contains("CICS") == True
CICSMask(frame) ==
    Series(frame, [i \in 1..Len(frame) |-> MaskCICS(frame[i].SMFMNSPN)])

\* frame['TRAN'].str.contains('^Y[1-5]95$|MAP')
TranMask(frame) ==
    Series(frame, [i \in 1..Len(frame) |-> MatchTran(frame[i].TRAN)])

\* frame['SMFMNSPN'].str.contains('CICS3AAB|CICS6AAA')
RegionMask(frame) ==
    Series(frame, [i \in 1..Len(frame) |-> MatchRegion(frame[i].SMFMNSPN)])

\* groupby(['SMFMNSPN'])['USRCPUT_TIMER'].sum(): sorted by group key
GroupSumByRegion(frame) ==
    LET keys == SortedStrs({frame[i].SMFMNSPN : i \in 1..Len(frame)})
    IN [n \in 1..Len(keys) |->
          [SMFMNSPN |-> keys[n],
           sum |-> TimerSum(Pick(frame,
                       {i \in 1..Len(frame) : frame[i].SMFMNSPN = keys[n]}, 1))]]

\* pivot_table(index=['SMF_SID','SMFMNSPN','DATETIME_SECOND'], columns=['TRAN'],
\* aggfunc=len).fillna(0): sorted index, sorted columns, row counts
PivotCount(frame) ==
    LET index == SortedTriples({<<frame[i].SMF_SID, frame[i].SMFMNSPN, frame[i].SEC>> :
                                   i \in 1..Len(frame)})
        columns == SortedStrs({frame[i].TRAN : i \in 1..Len(frame)})
    IN [index |-> index,
        columns |-> columns,
        cnt |-> [x \in 1..Len(index) |-> [c \in 1..Len(columns) |->
                   Cardinality({i \in 1..Len(frame) :
                       /\ <<frame[i].SMF_SID, frame[i].SMFMNSPN, frame[i].SEC>> = index[x]
                       /\ frame[i].TRAN = columns[c]})]]]

\* d[key] = d.get(key, 0) + 1 on a dict that keeps insertion order
DictIncr(d, key) ==
    IF \E n \in 1..Len(d.keys) : d.keys[n] = key
    THEN LET n == CHOOSE n \in 1..Len(d.keys) : d.keys[n] = key
         IN [d EXCEPT !.val[n] = @ + 1]
    ELSE [keys |-> Append(d.keys, key), val |-> Append(d.val, 1)]

NaN == [num |-> 0, den |-> 0]

\* pivot.iloc[lo:hi, :].apply(lambda x : np.mean(x)): per column, sum over count
SliceMean(pivot, lo, hi) ==
    LET rows == {x \in 1..Len(pivot.index) : lo < x /\ x <= hi}
    IN [c \in 1..Len(pivot.columns) |->
          [num |-> SeqSum([x \in 1..Len(pivot.index) |->
                              IF x \in rows THEN pivot.cnt[x][c] ELSE 0]),
           den |-> Cardinality(rows)]]

\* pivot_table(index=['SMF_SID','SMFMNSPN'], values=['USRCPUT_TIMER'], aggfunc=np.sum)
\* followed by x / float(total)
PivotShare(frame, total) ==
    LET index == SortedPairs({<<frame[i].SMF_SID, frame[i].SMFMNSPN>> : i \in 1..Len(frame)})
    IN [n \in 1..Len(index) |->
          [SMF_SID |-> index[n][1],
           SMFMNSPN |-> index[n][2],
           num |-> TimerSum(Pick(frame,
                      {i \in 1..Len(frame) :
                          <<frame[i].SMF_SID, frame[i].SMFMNSPN>> = index[n]}, 1)),
           den |-> total]]

\* the denominator of the CPU percentage
ShareTotal == TimerSum(orig_smf110_df)

-----------------------------------------------------------------------------
(* Input files of the word-count notebook *)

sText == <<"t", "e", "x", "t">>
sThou == <<"t", "h", "o", "u">>
sThee == <<"t", "h", "e", "e">>
sHamlet == <<"H", "a", "m", "l", "e", "t">>

LinePool ==
    { <<"t", "h", "o", "u", " ", "t", "h", "e", "e">>,
      <<"H", "a", "m", "l", "e", "t", " ", "t", "h", "o", "u">>,
      <<"a", " ", "b", " ", "c", " ", "d", " ", "e", " ", "f">>,
      <<"g", " ", "h", " ", "i", " ", "j", " ", "k", " ", "a">>,
      <<>>,
      <<"t", "h", "e", " ", "t", "e", "x", "t", " ", "t", "h", "o", "u">>,
      <<"h", "a", "m", "l", "e", "t", " ", " ", "t", "h", "e", "e">>,
      <<" ", "a", " ", "a", " ", "t", "h", "e", "e", " ">>,
      <<"H", "a", "m", "l", "e", "t", " ", "t", "h", "e", "e", " ", "t", "h", "o", "u", " ", "a">>,
      <<"H", "a", "m", "l", "e", "t", "s", " ", "T", "h", "o", "u", " ", "t", "h", "e", "e", ",">> }

Bodies == UNION {[1..n -> LinePool] : n \in 0..MaxLines}

\* the file prepared as the notebook asks: a first line "text", then the body
Prepared(body) == <<sText>> \o body

-----------------------------------------------------------------------------
(* read_csv, str.join, str.split, Counter *)

IsBlank(line) == \A i \in 1..Len(line) : line[i] = " "

NonBlank(lines) == Pick(lines, {i \in 1..Len(lines) : ~IsBlank(lines[i])}, 1)

\* read_csv(header=None, names=['text'], sep='\n'): every line that is not
\* blank is a row of column 'text'
ReadCsv(lines) == NonBlank(lines)

\* ' '.join(lines)
RECURSIVE Join(_)
Join(lines) ==
    IF lines = <<>> THEN <<>>
    ELSE IF Len(lines) = 1 THEN lines[1]
    ELSE lines[1] \o <<" ">> \o Join(Tail(lines))

\* s.split(): the maximal runs of characters that are not whitespace;
\* cur is the run being read
RECURSIVE SplitFrom(_, _)
SplitFrom(s, cur) ==
    IF s = <<>> THEN (IF cur = <<>> THEN <<>> ELSE <<cur>>)
    ELSE IF Head(s) = " "
         THEN (IF cur = <<>> THEN <<>> ELSE <<cur>>) \o SplitFrom(Tail(s), <<>>)
         ELSE SplitFrom(Tail(s), Append(cur, Head(s)))

Split(s) == SplitFrom(s, <<>>)

\* Counter(tokens): counts kept in order of first occurrence
RECURSIVE CounterFrom(_, _)
CounterFrom(tokens, d) ==
    IF tokens = <<>> THEN d
    ELSE CounterFrom(Tail(tokens), DictIncr(d, Head(tokens)))

Counter(tokens) == CounterFrom(tokens, [keys |-> <<>>, val |-> <<>>])

\* the items of d at the positions of left, by decreasing count, ties in
\* order of first occurrence (a stable sort)
RECURSIVE ByCount(_, _)
ByCount(d, left) ==
    IF left = {} THEN <<>>
    ELSE LET n == CHOOSE n \in left :
                    \A m \in left : \/ d.val[m] < d.val[n]
                                    \/ (d.val[m] = d.val[n] /\ n <= m)
         IN <<[word |-> d.keys[n], count |-> d.val[n]]>> \o ByCount(d, left \ {n})

\* list(Counter.items()): no sort
MostCommonMutant(d) == [n \in 1..Len(d.keys) |-> [word |-> d.keys[n], count |-> d.val[n]]]

\* Counter.most_common()
MostCommon(d) == ByCount(d, 1..Len(d.keys))

\* the number of entries shown by the statistics cell and the plot
TopN == 10

Top(wc) == SubSeq(wc, 1, IF Len(wc) < TopN THEN Len(wc) ELSE TopN)

\* word_d.get(w, 0)
LookupMutant(wc, w) ==
    IF \E n \in 1..Len(wc) : wc[n].word = w
    THEN [found |-> TRUE, count |-> wc[CHOOSE n \in 1..Len(wc) : wc[n].word = w].count]
    ELSE [found |-> TRUE, count |-> 0]

\* dict(word_c)[w]: found is FALSE when the lookup raises KeyError
Lookup(wc, w) ==
    IF \E n \in 1..Len(wc) : wc[n].word = w
    THEN [found |-> TRUE, count |-> wc[CHOOSE n \in 1..Len(wc) : wc[n].word = w].count]
    ELSE [found |-> FALSE, count |-> 0]

-----------------------------------------------------------------------------
(* Statement groups and cells *)

Stmts == {"clean", "explore", "cpu_time", "use_case", "cpu_trans",
          "rate_setup", "rate_count_body", "rate_mid", "rate_mean_body",
          "rate_plot", "cpu_pct",
          "wc_read", "wc_count", "wc_stats", "wc_plot"}

\* the bodies of the for loops of the CICS Transaction Rate cell
LoopBodies == {"rate_count_body", "rate_mean_body"}

Ran(s) == [execs EXCEPT ![s] = @ + 1]

rateVars == <<trans_rate_per_region, sys_id, cics_regions,
              num_days_cics_regions, loop_j, loop_i, loop_k, start_ind,
              cics_trans_df>>

NoDict == [keys |-> <<>>, val |-> <<>>]
NoPivot == [index |-> <<>>, columns |-> <<>>, cnt |-> <<>>]

InitSMF ==
    /\ \E t \in Tables : smf110_df = Frame(t)
    /\ pc = "clean"
    /\ file = <<>>

InitCommon ==
    /\ execs = [s \in Stmts |-> 0]
    /\ error = "none"
    /\ orig_smf110_df = <<>>
    /\ cpu_time_per_region = <<>>
    /\ smf110_filtered_tran_df = <<>>
    /\ trans_rate_per_region = NoPivot
    /\ sys_id = <<>>
    /\ cics_regions = <<>>
    /\ num_days_cics_regions = NoDict
    /\ loop_j = 0
    /\ loop_i = 0
    /\ loop_k = 0
    /\ start_ind = 0
    /\ cics_trans_df = <<>>
    /\ cpu_percentage_per_region = <<>>
    /\ df = <<>>
    /\ word_c = <<>>
    /\ words = <<>>
    /\ counts = <<>>
    /\ out = <<>>

InitWC ==
    /\ \E b \in Bodies : file = Prepared(b)
    /\ pc = "wc_read"
    /\ smf110_df = <<>>

\* either notebook, before its first cell that works on the loaded data
Init == (InitSMF \/ InitWC) /\ InitCommon

\* the cell after a cell
AfterCellMutant(cell) ==
    CASE cell = "clean" -> "explore"
      [] cell = "explore" -> "cpu_time"
      [] cell = "cpu_time" -> "use_case"
      [] cell = "use_case" -> "cpu_trans"
      [] cell = "cpu_trans" -> "rate_setup"
      [] cell = "rate_plot" -> "rate_setup"
      [] cell = "cpu_pct" -> "smf_done"
      [] cell = "wc_read" -> "wc_count"
      [] cell = "wc_count" -> "wc_stats"
      [] cell = "wc_stats" -> "wc_plot"
      [] cell = "wc_plot" -> "wc_done"
      [] cell = "wc_read" -> "wc_count"
      [] cell = "wc_count" -> "wc_stats"
      [] cell = "wc_stats" -> "wc_plot"
      [] cell = "wc_plot" -> "wc_done"

AfterCell(cell) ==
    CASE cell = "clean" -> "explore"
      [] cell = "explore" -> "cpu_time"
      [] cell = "cpu_time" -> "use_case"
      [] cell = "use_case" -> "cpu_trans"
      [] cell = "cpu_trans" -> "rate_setup"
      [] cell = "rate_plot" -> "cpu_pct"
      [] cell = "cpu_pct" -> "smf_done"
      [] cell = "wc_read" -> "wc_count"
      [] cell = "wc_count" -> "wc_stats"
      [] cell = "wc_stats" -> "wc_plot"
      [] cell = "wc_plot" -> "wc_done"
      [] cell = "wc_read" -> "wc_count"
      [] cell = "wc_count" -> "wc_stats"
      [] cell = "wc_stats" -> "wc_plot"
      [] cell = "wc_plot" -> "wc_done"

\* Data Cleaning cell: keep a copy, keep the rows whose region contains "CICS"
DataCleaning ==
    /\ pc = "clean"
    /\ orig_smf110_df' = smf110_df
    /\ smf110_df' = BoolIndex(smf110_df, CICSMask(smf110_df))
    /\ pc' = AfterCell("clean")
    /\ execs' = Ran("clean")
    /\ UNCHANGED <<error, cpu_time_per_region, smf110_filtered_tran_df,
                   cpu_percentage_per_region>>
    /\ UNCHANGED rateVars
    /\ UNCHANGED wcVars

\* Exploratory Analysis cells: prints, histogram, bar chart of value_counts();
\* plotting an empty value_counts() raises
ExploratoryAnalysis ==
    /\ pc = "explore"
    /\ execs' = Ran("explore")
    /\ IF smf110_df = <<>>
       THEN error' = "TypeError" /\ pc' = "stopped"
       ELSE error' = error /\ pc' = AfterCell("explore")
    /\ UNCHANGED <<smf110_df, orig_smf110_df, cpu_time_per_region,
                   smf110_filtered_tran_df, cpu_percentage_per_region>>
    /\ UNCHANGED rateVars
    /\ UNCHANGED wcVars

\* Total CPU Time (s) Accumulated Per CICS Region and System
CpuTimePerRegion ==
    /\ pc = "cpu_time"
    /\ cpu_time_per_region' = GroupSumByRegion(smf110_df)
    /\ pc' = AfterCell("cpu_time")
    /\ execs' = Ran("cpu_time")
    /\ UNCHANGED <<error, smf110_df, orig_smf110_df, smf110_filtered_tran_df,
                   cpu_percentage_per_region>>
    /\ UNCHANGED rateVars
    /\ UNCHANGED wcVars

\* Use Case cells: the transaction filter, then the region filter whose mask
\* is computed on smf110_df
UseCase ==
    /\ pc = "use_case"
    /\ smf110_filtered_tran_df' =
          BoolIndex(BoolIndex(smf110_df, TranMask(smf110_df)),
                    RegionMask(smf110_df))
    /\ pc' = AfterCell("use_case")
    /\ execs' = Ran("use_case")
    /\ UNCHANGED <<error, smf110_df, orig_smf110_df, cpu_time_per_region,
                   cpu_percentage_per_region>>
    /\ UNCHANGED rateVars
    /\ UNCHANGED wcVars

\* Total CPU Time (s) Accumulated Per Transaction, Per System: a grouped sum
\* that is plotted; plotting an empty frame raises
CpuTimePerTrans ==
    /\ pc = "cpu_trans"
    /\ execs' = Ran("cpu_trans")
    /\ IF smf110_filtered_tran_df = <<>>
       THEN error' = "TypeError" /\ pc' = "stopped"
       ELSE error' = error /\ pc' = AfterCell("cpu_trans")
    /\ UNCHANGED <<smf110_df, orig_smf110_df, cpu_time_per_region,
                   smf110_filtered_tran_df, cpu_percentage_per_region>>
    /\ UNCHANGED rateVars
    /\ UNCHANGED wcVars

\* CICS Transaction Rate cell, up to the first for loop
RateSetup ==
    /\ pc = "rate_setup"
    /\ LET pivot == PivotCount(smf110_filtered_tran_df)
       IN /\ trans_rate_per_region' = pivot
          /\ sys_id' = SortedStrs({pivot.index[x][1] : x \in 1..Len(pivot.index)})
          /\ cics_regions' = [x \in 1..Len(pivot.index) |-> pivot.index[x][2]]
    /\ num_days_cics_regions' = NoDict
    /\ loop_j' = 0
    /\ loop_i' = 0
    /\ pc' = "rate_count"
    /\ execs' = Ran("rate_setup")
    /\ UNCHANGED <<error, smf110_df, orig_smf110_df, cpu_time_per_region,
                   smf110_filtered_tran_df, cpu_percentage_per_region,
                   loop_k, start_ind, cics_trans_df>>
    /\ UNCHANGED wcVars

\* one iteration of: for j in range(len(sys_id)): for i in range(len(cics_regions))
RateCountBody ==
    /\ pc = "rate_count"
    /\ loop_j < Len(sys_id)
    /\ num_days_cics_regions' =
          DictIncr(num_days_cics_regions,
                   <<sys_id[loop_j + 1], cics_regions[loop_i + 1]>>)
    /\ IF loop_i + 1 < Len(cics_regions)
       THEN loop_i' = loop_i + 1 /\ loop_j' = loop_j
       ELSE loop_i' = 0 /\ loop_j' = loop_j + 1
    /\ execs' = Ran("rate_count_body")
    /\ UNCHANGED <<pc, error, smf110_df, orig_smf110_df, cpu_time_per_region,
                   smf110_filtered_tran_df, cpu_percentage_per_region,
                   trans_rate_per_region, sys_id, cics_regions, loop_k,
                   start_ind, cics_trans_df>>
    /\ UNCHANGED wcVars

\* between the loops: start_ind = 0 and the empty cics_trans_df
RateMid ==
    /\ pc = "rate_count"
    /\ loop_j = Len(sys_id)
    /\ start_ind' = 0
    /\ cics_trans_df' =
          [k \in 1..Len(num_days_cics_regions.keys) |->
              [c \in 1..Len(trans_rate_per_region.columns) |-> NaN]]
    /\ loop_k' = 0
    /\ pc' = "rate_mean"
    /\ execs' = Ran("rate_mid")
    /\ UNCHANGED <<error, smf110_df, orig_smf110_df, cpu_time_per_region,
                   smf110_filtered_tran_df, cpu_percentage_per_region,
                   trans_rate_per_region, sys_id, cics_regions,
                   num_days_cics_regions, loop_j, loop_i>>
    /\ UNCHANGED wcVars

\* one iteration of: for cics_region_per_sys in num_days_cics_regions
RateMeanBody ==
    /\ pc = "rate_mean"
    /\ loop_k < Len(num_days_cics_regions.keys)
    /\ LET end_ind == start_ind + num_days_cics_regions.val[loop_k + 1]
           cics_rate == SliceMean(trans_rate_per_region, start_ind, end_ind)
       IN /\ cics_trans_df' = [cics_trans_df EXCEPT ![loop_k + 1] = cics_rate]
          /\ start_ind' = end_ind
    /\ loop_k' = loop_k + 1
    /\ execs' = Ran("rate_mean_body")
    /\ UNCHANGED <<pc, error, smf110_df, orig_smf110_df, cpu_time_per_region,
                   smf110_filtered_tran_df, cpu_percentage_per_region,
                   trans_rate_per_region, sys_id, cics_regions,
                   num_days_cics_regions, loop_j, loop_i>>
    /\ UNCHANGED wcVars

\* the bar chart of cics_trans_df
RatePlot ==
    /\ pc = "rate_mean"
    /\ loop_k = Len(num_days_cics_regions.keys)
    /\ pc' = AfterCell("rate_plot")
    /\ execs' = Ran("rate_plot")
    /\ UNCHANGED <<error, smf110_df, orig_smf110_df, cpu_time_per_region,
                   smf110_filtered_tran_df, cpu_percentage_per_region>>
    /\ UNCHANGED rateVars
    /\ UNCHANGED wcVars

\* CPU Percentage per CICS Region and LPAR
CpuPercentage ==
    /\ pc = "cpu_pct"
    /\ cpu_percentage_per_region' = PivotShare(smf110_filtered_tran_df, ShareTotal)
    /\ pc' = AfterCell("cpu_pct")
    /\ execs' = Ran("cpu_pct")
    /\ UNCHANGED <<error, smf110_df, orig_smf110_df, cpu_time_per_region,
                   smf110_filtered_tran_df>>
    /\ UNCHANGED rateVars
    /\ UNCHANGED wcVars

\* read_csv cell: the frame and the printed line count
ReadText ==
    /\ pc = "wc_read"
    /\ df' = ReadCsv(file)
    /\ out' = Append(out, <<"lines", Len(ReadCsv(file))>>)
    /\ pc' = AfterCell("wc_read")
    /\ execs' = Ran("wc_read")
    /\ UNCHANGED <<error, file, word_c, words, counts>>
    /\ UNCHANGED smfVars

\* word_c = Counter(' '.join(df['text']).split()).most_common()
CountWords ==
    /\ pc = "wc_count"
    /\ word_c' = MostCommon(Counter(Split(Join(df))))
    /\ pc' = AfterCell("wc_count")
    /\ execs' = Ran("wc_count")
    /\ UNCHANGED <<error, file, df, words, counts, out>>
    /\ UNCHANGED smfVars

\* statistics cell: two prints, then the lookups of 'thou', 'thee', 'Hamlet'
Statistics ==
    /\ pc = "wc_stats"
    /\ execs' = Ran("wc_stats")
    /\ LET out1 == out \o << <<"unique", Len(word_c)>>, <<"top", Top(word_c)>> >>
           thou == Lookup(word_c, sThou)
           thee == Lookup(word_c, sThee)
           hamlet == Lookup(word_c, sHamlet)
           out2 == Append(out1, <<"thou_thee", thou.count, thee.count>>)
       IN IF ~(thou.found /\ thee.found)
          THEN out' = out1 /\ error' = "KeyError" /\ pc' = "stopped"
          ELSE IF ~hamlet.found
          THEN out' = out2 /\ error' = "KeyError" /\ pc' = "stopped"
          ELSE /\ out' = Append(out2, <<"hamlet", hamlet.count>>)
               /\ error' = error
               /\ pc' = AfterCell("wc_stats")
    /\ UNCHANGED <<file, df, word_c, words, counts>>
    /\ UNCHANGED smfVars

\* top-10 plot cell
PlotTop ==
    /\ pc = "wc_plot"
    /\ words' = [n \in 1..Len(Top(word_c)) |-> Top(word_c)[n].word]
    /\ counts' = [n \in 1..Len(Top(word_c)) |-> Top(word_c)[n].count]
    /\ pc' = AfterCell("wc_plot")
    /\ execs' = Ran("wc_plot")
    /\ UNCHANGED <<error, file, df, word_c, out>>
    /\ UNCHANGED smfVars

Next ==
    \/ DataCleaning
    \/ ExploratoryAnalysis
    \/ CpuTimePerRegion
    \/ UseCase
    \/ CpuTimePerTrans
    \/ RateSetup
    \/ RateCountBody
    \/ RateMid
    \/ RateMeanBody
    \/ RatePlot
    \/ CpuPercentage
    \/ ReadText
    \/ CountWords
    \/ Statistics
    \/ PlotTop

Spec == Init /\ [][Next]_vars

-----------------------------------------------------------------------------
(* Properties *)

Done(s) == execs[s] >= 1

Min(a, b) == IF a < b THEN a ELSE b

\* two quotients [num, den] are the same number, or both NaN
SameQuotient(a, b) ==
    /\ (a.den = 0) <=> (b.den = 0)
    /\ a.num * b.den = b.num * a.den

\* C1: after the Data Cleaning cell smf110_df holds exactly the input rows
\* whose SMFMNSPN starts with "CICS", in their order.
C1_KeepsExactlyPrefixCICS ==
    Done("clean") =>
        smf110_df = Pick(orig_smf110_df,
                         {i \in 1..Len(orig_smf110_df) :
                             StartsWith(orig_smf110_df[i].SMFMNSPN, sCICS)}, 1)

\* C2: after the loops of the transaction rate cell, every entry of
\* cics_trans_df, for a column (SMF_SID, SMFMNSPN) and a transaction, is the
\* mean of that transaction's counts over exactly the rows of
\* trans_rate_per_region indexed by that SMF_SID and that SMFMNSPN.
C2_MeanOverOwnRows ==
    Done("rate_plot") =>
        \A k \in 1..Len(num_days_cics_regions.keys) :
            \A c \in 1..Len(trans_rate_per_region.columns) :
                LET key == num_days_cics_regions.keys[k]
                    rows == {x \in 1..Len(trans_rate_per_region.index) :
                                /\ trans_rate_per_region.index[x][1] = key[1]
                                /\ trans_rate_per_region.index[x][2] = key[2]}
                    own == [num |-> SeqSum([x \in 1..Len(trans_rate_per_region.index) |->
                                        IF x \in rows
                                        THEN trans_rate_per_region.cnt[x][c] ELSE 0]),
                            den |-> Cardinality(rows)]
                IN SameQuotient(cics_trans_df[k][c], own)

\* C3: every value of cpu_percentage_per_region is the summed USRCPUT_TIMER of
\* its (SMF_SID, SMFMNSPN) group of smf110_filtered_tran_df divided by the
\* summed USRCPUT_TIMER of the rows that passed the Data Cleaning filter.
C3_ShareOfCICSRegions ==
    Done("cpu_pct") =>
        \A n \in 1..Len(cpu_percentage_per_region) :
            LET e == cpu_percentage_per_region[n]
                grp == Pick(smf110_filtered_tran_df,
                            {i \in 1..Len(smf110_filtered_tran_df) :
                                /\ smf110_filtered_tran_df[i].SMF_SID = e.SMF_SID
                                /\ smf110_filtered_tran_df[i].SMFMNSPN = e.SMFMNSPN}, 1)
            IN SameQuotient([num |-> e.num, den |-> e.den],
                            [num |-> TimerSum(grp), den |-> TimerSum(smf110_df)])

\* number of tokens equal to w among tokens
Occurrences(tokens, w) == Cardinality({i \in 1..Len(tokens) : tokens[i] = w})

\* C4: the inserted first line "text" is the column label: df holds the
\* non-blank lines after it, the printed line count does not include it, and
\* it adds no occurrence of the token "text" to word_c.
C4_FirstLineIsLabel ==
    Done("wc_read") =>
        /\ df = NonBlank(Tail(file))
        /\ out[1] = <<"lines", Len(NonBlank(Tail(file)))>>
        /\ Done("wc_count") =>
              Lookup(word_c, sText).count =
                  Occurrences(Split(Join(NonBlank(Tail(file)))), sText)

\* C5: word_c lists every distinct token of the joined text exactly once with
\* its number of occurrences, by non-increasing count; so its length is the
\* number of distinct tokens, its counts add up to the number of tokens, and
\* the entries printed and plotted are its first (up to) 10, none of which has
\* a smaller count than an entry left out.
C5_WordCounts ==
    Done("wc_count") =>
        LET tokens == Split(Join(df))
        IN /\ \A t \in Range(tokens) :
                 /\ Cardinality({n \in 1..Len(word_c) : word_c[n].word = t}) = 1
                 /\ \A n \in 1..Len(word_c) :
                       word_c[n].word = t => word_c[n].count = Occurrences(tokens, t)
           /\ \A n \in 1..Len(word_c) : word_c[n].word \in Range(tokens)
           /\ \A n, m \in 1..Len(word_c) : n < m => word_c[n].count >= word_c[m].count
           /\ Len(word_c) = Cardinality(Range(tokens))
           /\ SeqSum([n \in 1..Len(word_c) |-> word_c[n].count]) = Len(tokens)
           /\ \A n, m \in 1..Len(word_c) :
                 (n <= TopN /\ m > TopN) => ~(word_c[m].count > word_c[n].count)
           /\ Done("wc_stats") =>
                 out[3] = <<"top", SubSeq(word_c, 1, Min(TopN, Len(word_c)))>>
           /\ Done("wc_plot") =>
                 /\ Len(words) = Min(TopN, Len(word_c))
                 /\ Len(counts) = Len(words)
                 /\ \A n \in 1..Len(words) :
                       words[n] = word_c[n].word /\ counts[n] = word_c[n].count

C5_Witness ==
    /\ Done("wc_plot")
    /\ Len(word_c) > TopN
    /\ word_c[1].count > word_c[TopN + 1].count
    /\ \E n \in 1..(Len(word_c) - 1) : word_c[n].count = word_c[n + 1].count

\* C6: the regions selected by the region filter of the Use Case cells are the
\* two regions with the largest summed USRCPUT_TIMER in cpu_time_per_region.
C6_TwoBusiestRegions ==
    Done("use_case") =>
        LET all == {cpu_time_per_region[n].SMFMNSPN : n \in 1..Len(cpu_time_per_region)}
            sel == {s \in all : MatchRegion(s)}
            cpu(s) == cpu_time_per_region[
                          CHOOSE n \in 1..Len(cpu_time_per_region) :
                              cpu_time_per_region[n].SMFMNSPN = s].sum
        IN /\ Cardinality(sel) = Min(2, Cardinality(all))
           /\ \A s \in sel : \A u \in all \ sel : cpu(s) >= cpu(u)

\* the position of a cell in its notebook
CellNo(p) ==
    CASE p \in {"clean", "wc_read"} -> 1
      [] p \in {"explore", "wc_count"} -> 2
      [] p \in {"cpu_time", "wc_stats"} -> 3
      [] p \in {"use_case", "wc_plot"} -> 4
      [] p = "cpu_trans" -> 5
      [] p \in {"rate_setup", "rate_count", "rate_mean"} -> 6
      [] p = "cpu_pct" -> 7
      [] p \in {"smf_done", "wc_done", "stopped"} -> 8

C8_BothFiltersAnyOrder ==
    Done("use_case") =>
        /\ smf110_filtered_tran_df =
              Pick(smf110_df,
                   {i \in 1..Len(smf110_df) :
                       MatchTran(smf110_df[i].TRAN) /\ MatchRegion(smf110_df[i].SMFMNSPN)},
                   1)
        /\ smf110_filtered_tran_df =
              BoolIndex(BoolIndex(smf110_df, RegionMask(smf110_df)),
                        TranMask(smf110_df))

\* the mask of the region filter is longer than the frame it is applied to, a
\* row dropped by the first filter precedes a row kept by both, and the
\* second filter drops a row too
C8_Witness ==
    /\ Done("use_case")
    /\ \E i, j, k \in 1..Len(smf110_df) :
          /\ i < j
          /\ ~MatchTran(smf110_df[i].TRAN) /\ MatchRegion(smf110_df[i].SMFMNSPN)
          /\ MatchTran(smf110_df[j].TRAN) /\ MatchRegion(smf110_df[j].SMFMNSPN)
          /\ MatchTran(smf110_df[k].TRAN) /\ ~MatchRegion(smf110_df[k].SMFMNSPN)
    /\ smf110_filtered_tran_df # <<>>

\* C9: the statistics cell ends without error exactly when 'thou', 'thee' and
\* 'Hamlet' are all tokens of the text; otherwise it stops with KeyError after
\* the unique-word count and the top-10 list were printed, the run does not
\* go on, and word_c is unchanged.
C9_StatisticsKeyError ==
    [][ /\ pc # "stopped"
        /\ pc = "wc_stats" =>
              LET tokens == Range(Split(Join(df)))
                  all == {sThou, sThee, sHamlet} \subseteq tokens
              IN /\ all <=> (error' = "none" /\ pc' = "wc_plot")
                 /\ ~all => /\ error' = "KeyError"
                            /\ pc' = "stopped"
                            /\ Len(out') >= 3
                            /\ out'[2] = <<"unique", Len(word_c)>>
                            /\ out'[3][1] = "top"
                 /\ word_c' = word_c ]_vars

C9_Witness ==
    /\ pc = "stopped"
    /\ error = "KeyError"
    /\ Done("wc_stats")
    /\ sThou \in Range(Split(Join(df)))
    /\ sThee \in Range(Split(Join(df)))
    /\ sHamlet \notin Range(Split(Join(df)))

====
